---- MODULE Spec2Model ----
(***************************************************************************)
(* Model of src/ray/common/component_syncer.h: the RaySyncer message       *)
(* table (cluster_messages_), the peer table (followers_), the link        *)
(* reactors (Protocol<T>, SyncerServerReactor, SyncerClientReactor) and    *)
(* the service adapter (RaySyncerService::StartSync).                      *)
(*                                                                         *)
(* The header declares RaySyncer::Update and RaySyncer::SyncMessages but   *)
(* their bodies are not part of the sources; they are modelled from the    *)
(* design document (section 4.2, Ingest and DrainFor), within what the     *)
(* header fixes: the class has no member besides cluster_messages_ that    *)
(* could remember versions, and SyncMessages is a const member function.   *)
(***************************************************************************)
EXTENDS Integers, Sequences, FiniteSets, TLC

\* ---------------------------------------------------------------- bounds
MaxVersion == 2      \* greatest version a reporter or a peer produces
MaxReactors == 3     \* reactors constructed in one run
MaxInFlight == 1     \* frames the transport holds per direction (flow control)
MaxStreams == 2      \* hub-side reactors alive at one time

\* ------------------------------------------------------- program constants
\* RayComponentId_ARRAYSIZE of the message schema
kComponentArraySize == 2

NodeIds == {"A", "B", "C"}
Syncers == {"A", "B"}      \* the RaySyncer instances; "C" is a peer outside the model
Hub == "B"
Follower == "A"
Components == 0 .. (kComponentArraySize - 1)
Versions == 1 .. MaxVersion
Payloads == {"p", "q"}

Messages == [origin_node : NodeIds, component : Components,
             version : Versions, payload : Payloads]

\* Inputs of the store operations: the store never looks at the payload and
\* treats the components independently.
StoreInputs == {m \in Messages : m.payload = "p" /\ m.component = 0}

NoOp == [op |-> "none"]
NoWatch == <<>>
NoMessage == [version |-> 0]
NoAccept == [peer |-> "none"]
NoReactor == 0

VARIABLES
  cluster_messages_,  \* syncer -> (viewer -> set of messages, one per (origin, component))
  followers_,         \* syncer -> (peer node id -> hub-side reactor)
  leader_,            \* syncer -> follower reactor, or NoReactor
  reporters_,         \* syncer -> component -> "null" or "bound"
  receivers_,         \* syncer -> component -> "null" or "bound"
  snapshot,           \* syncer -> component -> version the reporter answers with
  received,           \* syncer -> (origin, component) -> last message passed to a receiver
  reactors,           \* sequence of reactor objects, in order of construction
  io_context_,        \* syncer -> queue of tasks posted to the I/O executor
  connecting,         \* follower reactors whose StartSync has not reached the hub yet
  crashed,            \* syncer -> "no", or where the process stopped
  accepted,           \* history: syncer -> (origin, component) -> last message Update accepted
  lastAccept,         \* history: what the last Accept constructed, displaced and returned
  removed,            \* history: node ids whose RaySyncDone task has run, per syncer
  watched,            \* history: one <<from, message>> pair handed to Update by a peer, or NoWatch
  maxIngested,        \* history: (origin, component) -> greatest version handed to Update
  lastOp              \* history: the store operation that produced this state

storeVars == <<cluster_messages_, watched, maxIngested, lastOp>>
fabricVars == <<followers_, leader_, reporters_, receivers_, snapshot, received,
                reactors, io_context_, connecting, crashed, accepted, lastAccept,
                removed>>
vars == <<cluster_messages_, followers_, leader_, reporters_, receivers_, snapshot,
          received, reactors, io_context_, connecting, crashed, accepted, lastAccept,
          removed, watched, maxIngested, lastOp>>

\* ------------------------------------------------------------ the store
KeyOf(m) == <<m.origin_node, m.component>>

Keys == NodeIds \X Components

\* Entries held for a key in any viewer's sub-map.
Known(cm, key) == {e \in UNION {cm[v] : v \in DOMAIN cm} : KeyOf(e) = key}

\* Ingest step 2: strictly greater than the latest-known version across the store.
IsNewer(cm, m) == \A e \in Known(cm, KeyOf(m)) : m.version > e.version

\* store[v][key] = m
Put(sub, m) == {e \in sub : KeyOf(e) # KeyOf(m)} \cup {m}

UpdateWritesOrigin(cm, from, m) ==
  IF ~IsNewer(cm, m) THEN cm
  ELSE [v \in DOMAIN cm |-> IF v # from THEN Put(cm[v], m) ELSE cm[v]]

\* RaySyncer::Update(from_node_id, message): Ingest steps 1-3.
Update(cm, from, m) ==
  IF ~IsNewer(cm, m) THEN cm
  ELSE [v \in DOMAIN cm |->
          IF v # m.origin_node /\ v # from THEN Put(cm[v], m) ELSE cm[v]]

\* RaySyncer::SyncMessages(node_id) const: the messages queued for the viewer.
SyncMessages(cm, node_id) == IF node_id \in DOMAIN cm THEN cm[node_id] ELSE {}

\* RaySyncer::AddNode: cluster_messages_[node_id] = NodeIndexedMessages()
AddNode(cm, node_id) ==
  [v \in (DOMAIN cm) \cup {node_id} |-> IF v = node_id THEN {} ELSE cm[v]]

EmptyStore == [v \in {} |-> {}]

\* ----------------------------------------------------- store operations
Construct ==
  /\ cluster_messages_ = [n \in Syncers |-> EmptyStore]
  /\ followers_ = [n \in Syncers |-> EmptyStore]
  /\ leader_ = [n \in Syncers |-> NoReactor]
  /\ snapshot = [n \in Syncers |-> [c \in Components |-> 1]]
  /\ received = [n \in Syncers |-> [k \in Keys |-> NoMessage]]
  /\ reactors = <<>>
  /\ io_context_ = [n \in Syncers |-> <<>>]
  /\ connecting = {}
  /\ crashed = [n \in Syncers |-> "no"]
  /\ accepted = [n \in Syncers |-> [k \in Keys |-> NoMessage]]
  /\ lastAccept = NoAccept
  /\ removed = [n \in Syncers |-> {}]

Unregistered ==
  /\ reporters_ = [n \in Syncers |-> [c \in Components |-> "null"]]
  /\ receivers_ = [n \in Syncers |-> [c \in Components |-> "null"]]

StoreInit ==
  /\ Construct
  /\ Unregistered
  /\ watched = NoWatch
  /\ maxIngested = [k \in Keys |-> 0]
  /\ lastOp = NoOp

AddViewer(v) ==
  /\ cluster_messages_' = [cluster_messages_ EXCEPT ![Hub] = AddNode(@, v)]
  /\ lastOp' = [op |-> "AddViewer"]
  /\ UNCHANGED <<watched, maxIngested, fabricVars>>

Ingest(from, m) ==
  /\ cluster_messages_' = [cluster_messages_ EXCEPT ![Hub] = Update(@, from, m)]
  /\ watched' \in (IF watched = NoWatch /\ from # Hub THEN {NoWatch, <<from, m>>}
                   ELSE {watched})
  /\ maxIngested' = [maxIngested EXCEPT ![KeyOf(m)] =
                       IF m.version > @ THEN m.version ELSE @]
  /\ lastOp' = [op |-> "Ingest", stale |-> (m.version <= maxIngested[KeyOf(m)])]
  /\ UNCHANGED fabricVars

DrainFor(v) ==
  /\ lastOp' = [op |-> "DrainFor", viewer |-> v]
  /\ UNCHANGED <<cluster_messages_, watched, maxIngested, fabricVars>>

StoreNext ==
  \/ \E v \in NodeIds \ {Hub} : AddViewer(v)
  \/ \E from \in NodeIds, m \in StoreInputs : Ingest(from, m)
  \/ \E v \in NodeIds \ {Hub} : DrainFor(v)

StoreSpec == StoreInit /\ [][StoreNext]_vars

\* ------------------------------------------------------------ registry
PayloadOf(version) == IF version % 2 = 1 THEN "p" ELSE "q"

\* Reporter::Snapshot() of the reporter bound to slot c of syncer n.
Snapshot(n, c) ==
  [origin_node |-> n, component |-> c, version |-> snapshot[n][c],
   payload |-> PayloadOf(snapshot[n][c])]

\* RaySyncer::Register: both slots are assigned, whatever they held. The
\* applications register before any stream is opened.
Register(n, c, reporter, receiver) ==
  /\ reactors = <<>> /\ connecting = {}
  /\ reporters_' = [reporters_ EXCEPT ![n][c] = reporter]
  /\ receivers_' = [receivers_ EXCEPT ![n][c] = receiver]
  /\ UNCHANGED <<cluster_messages_, followers_, leader_, snapshot, received, reactors,
                 io_context_, connecting, crashed, accepted, lastAccept, removed,
                 watched, maxIngested, lastOp>>

\* The reporter of slot c moves to its next version.
Produce(n, c) ==
  /\ reporters_[n][c] = "bound"
  /\ snapshot[n][c] < MaxVersion
  /\ snapshot' = [snapshot EXCEPT ![n][c] = @ + 1]
  /\ UNCHANGED <<cluster_messages_, followers_, leader_, reporters_, receivers_,
                 received, reactors, io_context_, connecting, crashed, accepted,
                 lastAccept, removed, watched, maxIngested, lastOp>>

\* ------------------------------------------------------------- reactors
\* Protocol<T> fields, and what the RPC runtime holds for the reactor.
NewReactor(n, side, id) ==
  [instance |-> n, side |-> side, node_id |-> id,
   alive |-> TRUE,        \* the object has not been destroyed
   peer |-> NoReactor,    \* reactor at the other end, NoReactor: none in the model
   meta |-> "pending",    \* initial metadata: "pending", "done", "failed"
   read |-> "idle",       \* "idle"; "armed": StartRead pending; "busy": frame being ingested
   in_message |-> {},
   inbox |-> <<>>,        \* frames the transport holds for this end
   write |-> FALSE,       \* a StartWrite is outstanding
   buffer |-> {},         \* buffer / out_message
   timer |-> FALSE,       \* an async_wait is pending
   writes |-> 0,          \* history: StartWrite calls so far, 2 standing for more
   known |-> {},          \* history: keys of other origins known when it was built
   wfail |-> FALSE,       \* history: a write has completed with ok == false
   rfail |-> FALSE,       \* history: a read has completed with ok == false
   erased |-> FALSE,      \* history: the RaySyncDone task posted by its OnDone has run
   finished |-> FALSE,    \* Finish has been called
   broken |-> FALSE,      \* the stream can no longer carry frames
   done |-> FALSE]        \* OnDone has been called

Task(kind, r) == [kind |-> kind, reactor |-> r]

Post(n, kind, r) == [io_context_ EXCEPT ![n] = Append(@, Task(kind, r))]

ReactorIds == 1 .. Len(reactors)

Running(r) == crashed[reactors[r].instance] = "no"

\* RaySyncer::Follow (declared only) with the SyncerClientReactor constructor:
\* the reactor starts under the local node id, which it sends as metadata.
Follow(n) ==
  /\ crashed[n] = "no"
  /\ leader_[n] = NoReactor
  /\ Len(reactors) < MaxReactors
  /\ reactors' = Append(reactors, NewReactor(n, "client", n))
  /\ leader_' = [leader_ EXCEPT ![n] = Len(reactors) + 1]
  /\ connecting' = connecting \cup {Len(reactors) + 1}
  /\ UNCHANGED <<cluster_messages_, followers_, reporters_, receivers_, snapshot,
                 received, io_context_, crashed, accepted, lastAccept, removed,
                 watched, maxIngested, lastOp>>

\* RaySyncer::Accept(node_id) for a stream whose other end is `remote`.
\* emplace keeps an entry that is already there; the reactor just built is then
\* dropped when the function returns, and the entry's reactor is returned.
Accept(n, node_id, remote) ==
  LET new == Len(reactors) + 1
      fresh == node_id \notin DOMAIN followers_[n]
      returned == IF fresh THEN new ELSE followers_[n][node_id]
      built == [NewReactor(n, "server", node_id) EXCEPT
                  !.alive = fresh,
                  !.peer = IF fresh THEN remote ELSE NoReactor,
                  !.known = {k \in Keys : /\ accepted[n][k] # NoMessage
                                          /\ k[1] # node_id}]
      grown == Append(reactors, built)
  IN
  /\ followers_' = [followers_ EXCEPT ![n] =
                      [p \in (DOMAIN @) \cup {node_id} |-> IF p = node_id THEN returned
                                                          ELSE @[p]]]
  /\ cluster_messages_' = [cluster_messages_ EXCEPT ![n] = AddNode(@, node_id)]
  /\ reactors' = IF remote # NoReactor /\ fresh
                   THEN [grown EXCEPT ![remote].peer = new]
                   ELSE grown
  /\ lastAccept' = [peer |-> node_id, created |-> new, returned |-> returned,
                    displaced |-> IF fresh THEN NoReactor ELSE followers_[n][node_id]]
  /\ removed' = [removed EXCEPT ![n] = @ \ {node_id}]

\* RaySyncerService::StartSync for a stream whose other end is `remote` (a
\* follower reactor of the model, or NoReactor for a peer outside it) and whose
\* request metadata holds `metadata` under node_id ("none": no such key).
StartSync(n, remote, metadata) ==
  /\ crashed[n] = "no"
  /\ Len(reactors) < MaxReactors
  /\ Cardinality({r \in ReactorIds : /\ reactors[r].instance = n
                                      /\ reactors[r].side = "server"
                                      /\ reactors[r].alive}) < MaxStreams
  /\ connecting' = connecting \ {remote}
  /\ IF metadata = "none"
       THEN /\ crashed' = [crashed EXCEPT ![n] = "StartSync"]
            /\ UNCHANGED <<cluster_messages_, followers_, reactors, lastAccept, removed>>
       ELSE /\ Accept(n, metadata, remote)
            /\ UNCHANGED crashed
  /\ UNCHANGED <<leader_, reporters_, receivers_, snapshot, received, io_context_,
                 accepted, watched, maxIngested, lastOp>>

\* RaySyncer::Update(from_node_id, messages): every message of the batch goes
\* through Update; `got` collects the messages that were accepted.
RECURSIVE UpdateBatch(_, _, _)
UpdateBatch(st, from, messages) ==
  IF messages = {} THEN st
  ELSE LET m == CHOOSE x \in messages : TRUE
           next == [cm |-> Update(st.cm, from, m),
                    got |-> IF IsNewer(st.cm, m) THEN st.got \cup {m} ELSE st.got]
       IN UpdateBatch(next, from, messages \ {m})

DeliverAlways(n, from, got) ==
  [k \in Keys |->
     IF receivers_[n][k[2]] # "null" /\ (\E m \in got : KeyOf(m) = k)
       THEN CHOOSE m \in got : KeyOf(m) = k
       ELSE received[n][k]]

\* Ingest step 4 and Deliver: accepted messages that did not come from the
\* local node go to the receiver bound to their component.
Deliver(n, from, got) ==
  [k \in Keys |->
     IF from # n /\ receivers_[n][k[2]] # "null" /\ (\E m \in got : KeyOf(m) = k)
       THEN CHOOSE m \in got : KeyOf(m) = k
       ELSE received[n][k]]

\* history: the messages of `got` become the last accepted ones of their keys.
Accepted(last, got) ==
  [k \in Keys |-> IF \E m \in got : KeyOf(m) = k
                   THEN CHOOSE m \in got : KeyOf(m) = k ELSE last[k]]

\* Protocol::SendMessage, first loop: Update(GetNodeId(), Snapshot()) per reporter.
RECURSIVE TakeSnapshots(_, _, _)
TakeSnapshots(cm, n, i) ==
  IF i = kComponentArraySize THEN cm
  ELSE TakeSnapshots(IF reporters_[n][i] # "null" THEN Update(cm, n, Snapshot(n, i)) ELSE cm,
                     n, i + 1)

ArmTimerForgotten(rec) == rec

\* Protocol::OnWriteDone(true): the cool-down timer is armed.
ArmTimer(rec) == [rec EXCEPT !.timer = TRUE]

StartWriteAndArm(rec, buffer) ==
  [rec EXCEPT !.buffer = buffer, !.write = TRUE, !.timer = TRUE,
              !.writes = IF @ < 2 THEN @ + 1 ELSE @]

\* Protocol::SendMessage, second half: out_message is rebuilt from the buffer
\* and StartWrite is called.
StartWrite(rec, buffer) ==
  [rec EXCEPT !.buffer = buffer, !.write = TRUE,
              !.writes = IF @ < 2 THEN @ + 1 ELSE @]

\* Protocol::SendMessage for reactor r, whose fields are `rec` when it is called.
SendMessage(r, rec) ==
  LET n == rec.instance
      cm == TakeSnapshots(cluster_messages_[n], n, 0)
      buffer == SyncMessages(cm, rec.node_id)
      got == {m \in {Snapshot(n, i) : i \in Components} :
                /\ reporters_[n][m.component] # "null"
                /\ IsNewer(cluster_messages_[n], m)}
  IN
  /\ cluster_messages_' = [cluster_messages_ EXCEPT ![n] = cm]
  /\ accepted' = [accepted EXCEPT ![n] = Accepted(@, got)]
  /\ received' = [received EXCEPT ![n] = Deliver(n, n, got)]
  /\ reactors' = [reactors EXCEPT ![r] =
                    IF buffer = {} THEN ArmTimer([rec EXCEPT !.buffer = {}])
                    ELSE StartWrite(rec, buffer)]

\* SyncerServerReactor::OnSendInitialMetadataDone
OnSendInitialMetadataDone(r, ok) ==
  LET rec == reactors[r] IN
  /\ Running(r) /\ rec.alive
  /\ rec.side = "server" /\ rec.meta = "pending"
  /\ ok = ~rec.broken
  /\ IF ok
       THEN /\ reactors' = [reactors EXCEPT ![r].meta = "done", ![r].read = "armed"]
            /\ io_context_' = Post(rec.instance, "RaySyncWrite", r)
       ELSE /\ reactors' = [reactors EXCEPT ![r].meta = "failed", ![r].finished = TRUE]
            /\ UNCHANGED io_context_
  /\ UNCHANGED <<cluster_messages_, followers_, leader_, reporters_, receivers_,
                 snapshot, received, connecting, crashed, accepted, lastAccept, removed,
                 watched, maxIngested, lastOp>>

\* SyncerClientReactor::OnReadInitialMetadataDone
OnReadInitialMetadataDone(r, ok) ==
  LET rec == reactors[r]
      n == rec.instance
      hub == reactors[rec.peer].instance
  IN
  /\ Running(r) /\ rec.alive
  /\ rec.side = "client" /\ rec.meta = "pending"
  /\ rec.peer # NoReactor
  /\ IF ok THEN ~rec.broken /\ reactors[rec.peer].meta = "done"
           ELSE rec.broken \/ reactors[rec.peer].meta = "failed"
  /\ IF ok
       THEN /\ cluster_messages_' = [cluster_messages_ EXCEPT ![n] = AddNode(@, hub)]
            /\ reactors' = [reactors EXCEPT ![r].meta = "done", ![r].node_id = hub,
                                            ![r].read = "armed"]
            /\ io_context_' = Post(n, "RaySyncWrite", r)
            /\ UNCHANGED crashed
       ELSE /\ crashed' = [crashed EXCEPT ![n] = "OnReadInitialMetadataDone"]
            /\ UNCHANGED <<cluster_messages_, reactors, io_context_>>
  /\ UNCHANGED <<followers_, leader_, reporters_, receivers_, snapshot, received,
                 connecting, accepted, lastAccept, removed, watched, maxIngested,
                 lastOp>>

ReadCompletesAndRearms(rec) ==
  [rec EXCEPT !.in_message = Head(rec.inbox), !.inbox = Tail(rec.inbox),
              !.read = "armed"]

\* Protocol::OnReadDone(true): the runtime has filled in_message with the next
\* frame; no read is outstanding until the ReadDone task calls StartRead.
ReadCompletes(rec) ==
  [rec EXCEPT !.in_message = Head(rec.inbox), !.inbox = Tail(rec.inbox),
              !.read = "busy"]

\* Protocol::OnReadDone. A read completes with a frame of the transport, or
\* fails once the stream is gone; the failure branch arms the next read at once.
OnReadDone(r, ok) ==
  LET rec == reactors[r] IN
  /\ Running(r) /\ rec.alive
  /\ rec.read = "armed"
  /\ IF ok THEN rec.inbox # <<>> ELSE rec.inbox = <<>> /\ (rec.broken \/ rec.finished)
  /\ IF ok
       THEN /\ reactors' = [reactors EXCEPT ![r] = ReadCompletes(rec)]
            /\ io_context_' = Post(rec.instance, "ReadDone", r)
       ELSE /\ reactors' = [reactors EXCEPT ![r].rfail = TRUE]
            /\ UNCHANGED io_context_
  /\ UNCHANGED <<cluster_messages_, followers_, leader_, reporters_, receivers_,
                 snapshot, received, connecting, crashed, accepted, lastAccept, removed,
                 watched, maxIngested, lastOp>>

\* The transport takes the frame of an outstanding write.
Transmit(rs, r) ==
  IF rs[r].peer = NoReactor THEN rs
  ELSE [rs EXCEPT ![rs[r].peer].inbox = Append(@, rs[r].buffer)]

\* Protocol::OnWriteDone
OnWriteDone(r, ok) ==
  LET rec == reactors[r] IN
  /\ Running(r) /\ rec.alive
  /\ rec.write
  /\ IF ok THEN /\ ~rec.broken
                /\ rec.peer # NoReactor => Len(reactors[rec.peer].inbox) < MaxInFlight
           ELSE rec.broken
  /\ IF ok
       THEN /\ reactors' = [Transmit(reactors, r) EXCEPT
                              ![r] = ArmTimer([rec EXCEPT !.write = FALSE])]
            /\ UNCHANGED io_context_
       ELSE /\ reactors' = [reactors EXCEPT ![r].write = FALSE, ![r].wfail = TRUE]
            /\ io_context_' = Post(rec.instance, "RaySyncWrite", r)
  /\ UNCHANGED <<cluster_messages_, followers_, leader_, reporters_, receivers_,
                 snapshot, received, connecting, crashed, accepted, lastAccept, removed,
                 watched, maxIngested, lastOp>>

\* The handler passed to timer->async_wait, when the wait was not aborted.
TimerExpired(r) ==
  LET rec == reactors[r] IN
  /\ Running(r) /\ rec.alive
  /\ rec.timer
  /\ SendMessage(r, [rec EXCEPT !.timer = FALSE])
  /\ UNCHANGED <<followers_, leader_, reporters_, receivers_, snapshot,
                 io_context_, connecting, crashed, lastAccept, removed,
                 watched, maxIngested, lastOp>>

\* OnDone of either reactor class: the runtime calls it once the RPC is over,
\* for a hub-side reactor after Finish, for a follower reactor after the stream
\* has ended.
OnDone(r) ==
  LET rec == reactors[r] IN
  /\ Running(r) /\ rec.alive
  /\ ~rec.done
  /\ IF rec.side = "server" THEN rec.finished
     ELSE rec.broken \/ (rec.peer # NoReactor /\ reactors[rec.peer].finished)
  /\ ~rec.write /\ rec.read # "busy"
  /\ reactors' = [reactors EXCEPT ![r].done = TRUE]
  /\ io_context_' = Post(rec.instance, "RaySyncDone", r)
  /\ UNCHANGED <<cluster_messages_, followers_, leader_, reporters_, receivers_,
                 snapshot, received, connecting, crashed, accepted, lastAccept, removed,
                 watched, maxIngested, lastOp>>

\* ------------------------------------------------- I/O executor tasks
\* "ReadDone": Update(node_id, in_message); in_message.Clear(); StartRead.
ReadDoneTask(r) ==
  LET rec == reactors[r]
      n == rec.instance
      st == UpdateBatch([cm |-> cluster_messages_[n], got |-> {}],
                        rec.node_id, rec.in_message)
  IN
  /\ cluster_messages_' = [cluster_messages_ EXCEPT ![n] = st.cm]
  /\ received' = [received EXCEPT ![n] = Deliver(n, rec.node_id, st.got)]
  /\ accepted' = [accepted EXCEPT ![n] = Accepted(@, st.got)]
  /\ reactors' = [reactors EXCEPT ![r].in_message = {}, ![r].read = "armed"]
  /\ UNCHANGED <<followers_, removed>>

\* "RaySyncWrite": SendMessage().
RaySyncWriteTask(r) ==
  /\ SendMessage(r, reactors[r])
  /\ UNCHANGED <<followers_, removed>>

\* ~Protocol: the members go with the object; operations the runtime still
\* holds for it (an armed read, an outstanding write) stay behind.
Destroyed(rec) ==
  [rec EXCEPT !.alive = FALSE, !.timer = FALSE, !.in_message = {}, !.buffer = {},
              !.inbox = <<>>]

\* "RaySyncDone": instance->followers_.erase(node_id). The entry owns its
\* reactor, which is destroyed with it; destroying the timer aborts its wait.
RaySyncDoneTask(r) ==
  LET rec == reactors[r]
      n == rec.instance
      gone == IF rec.node_id \in DOMAIN followers_[n]
                THEN followers_[n][rec.node_id] ELSE NoReactor
  IN
  /\ followers_' = [followers_ EXCEPT ![n] =
                      [p \in (DOMAIN @) \ {rec.node_id} |-> @[p]]]
  /\ reactors' = [i \in ReactorIds |->
                    LET left == IF i = gone THEN Destroyed(reactors[i]) ELSE reactors[i]
                    IN IF i = r THEN [left EXCEPT !.erased = TRUE] ELSE left]
  /\ removed' = [removed EXCEPT ![n] = @ \cup {rec.node_id}]
  /\ UNCHANGED <<cluster_messages_, received, accepted>>

\* The I/O executor runs the task at the head of its queue.
RunTask(n) ==
  /\ crashed[n] = "no"
  /\ io_context_[n] # <<>>
  /\ LET t == Head(io_context_[n]) IN
       CASE t.kind = "ReadDone" -> ReadDoneTask(t.reactor)
         [] t.kind = "RaySyncWrite" -> RaySyncWriteTask(t.reactor)
         [] t.kind = "RaySyncDone" -> RaySyncDoneTask(t.reactor)
  /\ io_context_' = [io_context_ EXCEPT ![n] = Tail(@)]
  /\ UNCHANGED <<leader_, reporters_, receivers_, snapshot, connecting, crashed,
                 lastAccept, watched, maxIngested, lastOp>>

\* A callback or task captured `this` of a reactor that has been destroyed:
\* running it is undefined; besides going on as though the object were still
\* there (RunTask), the process may stop.
UseAfterFree(r) ==
  LET rec == reactors[r] IN
  /\ Running(r) /\ ~rec.alive
  /\ \/ \E i \in 1 .. Len(io_context_[rec.instance]) :
          io_context_[rec.instance][i].reactor = r
     \/ rec.write
     \/ rec.read = "armed"
  /\ crashed' = [crashed EXCEPT ![rec.instance] = "use after free"]
  /\ UNCHANGED <<cluster_messages_, followers_, leader_, reporters_, receivers_,
                 snapshot, received, reactors, io_context_, connecting, accepted,
                 lastAccept, removed, watched, maxIngested, lastOp>>

\* ------------------------------------------------------- the outside world
\* Frames of the peer outside the model: its own snapshot of component 0.
OutsideFrames ==
  {{m} : m \in {x \in Messages : /\ x.origin_node = "C" /\ x.component = 0
                                 /\ x.payload = PayloadOf(x.version)}}

\* A frame of a peer outside the model reaches the hub-side reactor's transport.
OutsideWrite(r, frame) ==
  LET rec == reactors[r] IN
  /\ Running(r) /\ rec.alive
  /\ rec.side = "server" /\ rec.peer = NoReactor /\ rec.meta = "done"
  /\ ~rec.broken /\ ~rec.finished
  /\ Len(rec.inbox) < MaxInFlight
  /\ \A m \in frame : m.origin_node = rec.node_id
  /\ reactors' = [reactors EXCEPT ![r].inbox = Append(@, frame)]
  /\ UNCHANGED <<cluster_messages_, followers_, leader_, reporters_, receivers_,
                 snapshot, received, io_context_, connecting, crashed, accepted,
                 lastAccept, removed, watched, maxIngested, lastOp>>

\* The stream of reactor r breaks, at both ends.
Break(r) ==
  LET rec == reactors[r] IN
  /\ Running(r) /\ rec.alive
  /\ ~rec.broken /\ ~rec.done
  /\ rec.side = "server"
  /\ reactors' = [i \in ReactorIds |->
                    IF i = r \/ i = rec.peer THEN [reactors[i] EXCEPT !.broken = TRUE]
                    ELSE reactors[i]]
  /\ UNCHANGED <<cluster_messages_, followers_, leader_, reporters_, receivers_,
                 snapshot, received, io_context_, connecting, crashed, accepted,
                 lastAccept, removed, watched, maxIngested, lastOp>>

\* ------------------------------------------------------------ the fabric
Init ==
  /\ Construct
  /\ Unregistered
  /\ watched = NoWatch
  /\ maxIngested = [k \in Keys |-> 0]
  /\ lastOp = NoOp

\* What the applications register: the follower a reporter, the hub a receiver
\* with or without a reporter, or nothing.
Registrations ==
  {<<Follower, 0, "bound", "null">>, <<Hub, 0, "bound", "bound">>,
   <<Hub, 0, "null", "bound">>, <<Hub, 0, "null", "null">>}

\* node_id metadata of the streams opened by peers outside the model.
OutsideCalls == {"A", "C", "none"}

\* The hub and the streams of peers outside the model.
HubNext ==
  \/ \E reg \in Registrations : reg[1] = Hub /\ Register(reg[1], reg[2], reg[3], reg[4])
  \/ Produce(Hub, 0)
  \/ \E metadata \in OutsideCalls :
       /\ metadata = "C" => "C" \notin DOMAIN followers_[Hub]
       /\ StartSync(Hub, NoReactor, metadata)
  \/ \E r \in ReactorIds, ok \in BOOLEAN : OnSendInitialMetadataDone(r, ok)
  \/ \E r \in ReactorIds, ok \in BOOLEAN : OnReadDone(r, ok)
  \/ \E r \in ReactorIds, ok \in BOOLEAN : OnWriteDone(r, ok)
  \/ \E r \in ReactorIds : TimerExpired(r)
  \/ \E r \in ReactorIds : OnDone(r)
  \/ RunTask(Hub)
  \/ \E r \in ReactorIds, frame \in OutsideFrames : OutsideWrite(r, frame)
  \/ \E r \in ReactorIds : reactors[r].node_id = Follower /\ Break(r)

HubSpec == Init /\ [][HubNext]_vars

\* The follower, the hub and the stream between them.
PairNext ==
  \/ \E reg \in Registrations : Register(reg[1], reg[2], reg[3], reg[4])
  \/ \E n \in Syncers : Produce(n, 0)
  \/ Follow(Follower)
  \/ \E call \in connecting : StartSync(Hub, call, reactors[call].node_id)
  \/ \E r \in ReactorIds, ok \in BOOLEAN : OnSendInitialMetadataDone(r, ok)
  \/ \E r \in ReactorIds, ok \in BOOLEAN : OnReadInitialMetadataDone(r, ok)
  \/ \E r \in ReactorIds, ok \in BOOLEAN : OnReadDone(r, ok)
  \/ \E r \in ReactorIds, ok \in BOOLEAN : OnWriteDone(r, ok)
  \/ \E r \in ReactorIds : TimerExpired(r)
  \/ \E r \in ReactorIds : OnDone(r)
  \/ \E n \in Syncers : RunTask(n)
  \/ \E r \in ReactorIds : Break(r)

PairSpec == Init /\ [][PairNext]_vars

Next ==
  \/ HubNext
  \/ PairNext
  \/ \E r \in ReactorIds : UseAfterFree(r)

\* The follower with a reporter and the hub with a receiver on component 0, on a
\* stream that stays open: callbacks, tasks and timers only, each scheduled fairly.
LiveInit ==
  /\ Construct
  /\ reporters_ = [n \in Syncers |-> [c \in Components |->
                     IF n = Follower /\ c = 0 THEN "bound" ELSE "null"]]
  /\ receivers_ = [n \in Syncers |-> [c \in Components |->
                     IF n = Hub /\ c = 0 THEN "bound" ELSE "null"]]
  /\ watched = NoWatch
  /\ maxIngested = [k \in Keys |-> 0]
  /\ lastOp = NoOp

Connect == \E call \in connecting : StartSync(Hub, call, reactors[call].node_id)
MetadataSent == \E r \in ReactorIds : OnSendInitialMetadataDone(r, TRUE)
MetadataRead == \E r \in ReactorIds : OnReadInitialMetadataDone(r, TRUE)
FrameRead == \E r \in ReactorIds : OnReadDone(r, TRUE)
FrameWritten == \E r \in ReactorIds : OnWriteDone(r, TRUE)
CoolDownOver == \E r \in ReactorIds : TimerExpired(r)
Executor == \E n \in Syncers : RunTask(n)

LiveNext ==
  \/ Produce(Follower, 0)
  \/ Follow(Follower)
  \/ Connect
  \/ MetadataSent
  \/ MetadataRead
  \/ FrameRead
  \/ FrameWritten
  \/ CoolDownOver
  \/ Executor

LiveSpec ==
  /\ LiveInit /\ [][LiveNext]_vars
  /\ WF_vars(Follow(Follower)) /\ WF_vars(Connect)
  /\ WF_vars(MetadataSent) /\ WF_vars(MetadataRead)
  /\ WF_vars(FrameRead) /\ WF_vars(FrameWritten)
  /\ WF_vars(CoolDownOver) /\ WF_vars(Executor)

Spec == Init /\ [][Next]_vars

\* ------------------------------------------------ properties of the store
HubStore == cluster_messages_[Hub]

\* C1 (no back-echo): a message that was handed to Update with from = X is
\* never among the messages SyncMessages(X) returns.
NoBackEcho ==
  (lastOp.op = "DrainFor" /\ watched # NoWatch /\ lastOp.viewer = watched[1])
    => watched[2] \notin SyncMessages(HubStore, lastOp.viewer)

StoredIsMaxIngested ==
  \A v \in DOMAIN HubStore : \A m \in HubStore[v] :
    m.version = maxIngested[KeyOf(m)]

\* C4 (stale rejection): an Update whose version is not above a version
\* already handed to Update for the same key leaves every sub-map unchanged.
StaleLeavesStoreUnchanged ==
  [][(lastOp'.op = "Ingest" /\ lastOp'.stale)
       => cluster_messages_' = cluster_messages_]_vars

\* C5 (idempotent drain): right after SyncMessages(v) has been taken, taking
\* it again returns nothing.
SecondDrainEmpty ==
  lastOp.op = "DrainFor" => SyncMessages(HubStore, lastOp.viewer) = {}


\* ----------------------------------------------- properties of the fabric
\* C6 (round trip): the receiver of the hub ends up holding, as the last
\* message passed to it for the follower's component, the reporter's latest
\* snapshot: same origin, component, version and payload.
RoundTrip == <>[](received[Hub][<<Follower, 0>>] = Snapshot(Follower, 0))

\* The reporter has produced a later version and the hub's receiver has it.
RoundTripWitness ==
  /\ snapshot[Follower][0] > 1
  /\ received[Hub][<<Follower, 0>>] = Snapshot(Follower, 0)

\* C7 (disconnect cleanup): once the RaySyncDone task of a peer's stream has
\* run, and until the peer is accepted again, the hub has neither a followers_
\* entry nor a sub-map for the peer.
DisconnectCleanup ==
  \A p \in removed[Hub] :
    p \notin DOMAIN followers_[Hub] /\ p \notin DOMAIN cluster_messages_[Hub]

\* C8 (duplicate peer): an Accept for a peer id that followers_ already holds
\* returns the reactor it has just built, and the reactor that was registered
\* has been asked to finish.
DuplicateDisplaces ==
  (lastAccept.peer # "none" /\ lastAccept.displaced # NoReactor)
    => /\ lastAccept.returned = lastAccept.created
       /\ reactors[lastAccept.displaced].finished

\* C9 (full refresh): the first StartWrite of a hub-side reactor carries the
\* current message of every key of another origin that the hub knew when the
\* reactor was built.
FirstWriteRefreshes ==
  [][\A r \in ReactorIds :
       (reactors[r].side = "server" /\ reactors[r].writes = 0 /\ reactors'[r].writes = 1)
         => \A k \in reactors[r].known :
              accepted'[reactors[r].instance][k] \in reactors'[r].buffer]_vars

\* C10 (missing node_id): a stream without the node_id metadata never stops
\* the process.
MissingNodeIdKeepsRunning == crashed[Hub] # "StartSync"

\* C11 (bind once): a Register on a slot that already holds a reporter or a
\* receiver leaves both as they were.
BindOnce ==
  [][\A n \in Syncers, c \in Components :
       (reporters_[n][c] # "null" \/ receivers_[n][c] # "null")
         => (reporters_'[n][c] = reporters_[n][c] /\ receivers_'[n][c] = receivers_[n][c])]_vars

\* A step of the I/O executor: a task of io_context_, or the handler of a
\* timer, which is constructed on io_context_.
OnExecutor ==
  \/ \E n \in Syncers : RunTask(n)
  \/ \E r \in ReactorIds : TimerExpired(r)

\* C12 (single writer): every step that changes cluster_messages_ or
\* followers_ is a step of the I/O executor.
SingleWriter ==
  [][(cluster_messages_' # cluster_messages_ \/ followers_' # followers_)
       => OnExecutor]_vars

\* C13 (no retry): once a write of a reactor has completed with failure, the
\* reactor issues no further StartWrite.
NoRetryAfterWriteFailure ==
  [][\A r \in ReactorIds :
       reactors[r].wfail => (reactors'[r].write => reactors[r].write)]_vars

\* C15 (cool-down): a StartWrite that is not the first of its reactor is
\* issued by the expiry of the cool-down timer, so that a timer expiry lies
\* between any two writes of a link.
CoolDownBetweenWrites ==
  [][\A r \in ReactorIds :
       (~reactors[r].write /\ reactors'[r].write /\ reactors[r].writes >= 1)
         => (reactors[r].timer /\ ~reactors'[r].timer)]_vars

\* ------------------------------------------------- a stream that can break
\* The follower, the hub and their stream as in LiveSpec, where the stream may
\* break at any time; every callback, task and timer is scheduled fairly.
Cut == \E r \in ReactorIds : Break(r)
MetadataNotSent == \E r \in ReactorIds : OnSendInitialMetadataDone(r, FALSE)
MetadataNotRead == \E r \in ReactorIds : OnReadInitialMetadataDone(r, FALSE)
ReadFailed == \E r \in ReactorIds : OnReadDone(r, FALSE)
WriteFailed == \E r \in ReactorIds : OnWriteDone(r, FALSE)
Completed == \E r \in ReactorIds : OnDone(r)

TeardownNext ==
  \/ LiveNext
  \/ Cut
  \/ MetadataNotSent
  \/ MetadataNotRead
  \/ ReadFailed
  \/ WriteFailed
  \/ Completed

TeardownSpec ==
  /\ LiveInit /\ [][TeardownNext]_vars
  /\ WF_vars(Follow(Follower)) /\ WF_vars(Connect)
  /\ WF_vars(MetadataSent) /\ WF_vars(MetadataRead)
  /\ WF_vars(FrameRead) /\ WF_vars(FrameWritten)
  /\ WF_vars(CoolDownOver) /\ WF_vars(Executor)
  /\ WF_vars(MetadataNotSent) /\ WF_vars(MetadataNotRead)
  /\ WF_vars(ReadFailed) /\ WF_vars(WriteFailed) /\ WF_vars(Completed)

\* C14 (read failure): after a read of the hub-side reactor has completed with
\* failure, the hub eventually has no followers_ entry for the peer.
ReadFailureTearsDown ==
  (\E r \in ReactorIds : reactors[r].side = "server" /\ reactors[r].rfail)
    ~> (Follower \notin DOMAIN followers_[Hub])

\* ------------------------------------------------------ two-way exchange
\* Follower and hub each with a reporter on component 0, the hub with a
\* receiver as well, on a stream that may break; the follower's reporter moves
\* through its versions.
ExchangeInit ==
  /\ Construct
  /\ reporters_ = [n \in Syncers |-> [c \in Components |->
                     IF c = 0 THEN "bound" ELSE "null"]]
  /\ receivers_ = [n \in Syncers |-> [c \in Components |->
                     IF n = Hub /\ c = 0 THEN "bound" ELSE "null"]]
  /\ watched = NoWatch
  /\ maxIngested = [k \in Keys |-> 0]
  /\ lastOp = NoOp

ExchangeNext ==
  \/ Produce(Follower, 0)
  \/ Follow(Follower)
  \/ Connect
  \/ \E r \in ReactorIds, ok \in BOOLEAN : OnSendInitialMetadataDone(r, ok)
  \/ \E r \in ReactorIds, ok \in BOOLEAN : OnReadInitialMetadataDone(r, ok)
  \/ \E r \in ReactorIds, ok \in BOOLEAN : OnReadDone(r, ok)
  \/ \E r \in ReactorIds, ok \in BOOLEAN : OnWriteDone(r, ok)
  \/ CoolDownOver
  \/ Completed
  \/ Executor
  \/ Cut

ExchangeSpec == ExchangeInit /\ [][ExchangeNext]_vars

\* The tasks of the given kind that reactor r has in the queue of its executor.
Queued(kind, r) ==
  LET q == io_context_[reactors[r].instance]
  IN {i \in 1 .. Len(q) : q[i] = Task(kind, r)}

\* The step runs the task of the given kind of reactor r.
RanTask(kind, r) ==
  LET n == reactors[r].instance
  IN /\ io_context_[n] # <<>>
     /\ Head(io_context_[n]) = Task(kind, r)
     /\ io_context_'[n] = Tail(io_context_[n])

\* C16 (in-order reads): a reactor has at most one frame waiting to be
\* ingested; while it waits no read is outstanding, and while a read is
\* outstanding in_message is empty. Frames are therefore ingested one at a
\* time, in the order the transport delivered them.
OneFrameInFlight ==
  \A r \in ReactorIds :
    /\ Cardinality(Queued("ReadDone", r)) <= 1
    /\ Queued("ReadDone", r) # {} => reactors[r].read # "armed"
    /\ reactors[r].read = "armed" => reactors[r].in_message = {}

\* A frame is being ingested while the transport already holds the next one.
OneFrameInFlightWitness ==
  \E r \in ReactorIds :
    /\ Queued("ReadDone", r) # {}
    /\ reactors[r].in_message # {}
    /\ reactors[r].inbox # <<>>

SingleWriterChain ==
  \A r \in ReactorIds :
    (IF reactors[r].write THEN 1 ELSE 0) + (IF reactors[r].timer THEN 1 ELSE 0)
      + Cardinality(Queued("RaySyncWrite", r)) <= 1

\* After a failed write the chain went on through a RaySyncWrite task to the
\* next StartWrite.
SingleWriterChainWitness ==
  \E r \in ReactorIds : reactors[r].wfail /\ reactors[r].write

\* The step runs the handler of reactor r's cool-down timer.
RanTimer(r) == reactors[r].timer /\ ~reactors'[r].timer /\ reactors'[r].alive

\* C19 (no callback after removal): once the RaySyncDone task posted by a
\* reactor's OnDone has run, no ReadDone task, RaySyncWrite task or timer
\* handler of that reactor runs.
NoCallbackAfterRemoval ==
  [][\A r \in ReactorIds :
       reactors[r].erased
         => ~(RanTask("ReadDone", r) \/ RanTask("RaySyncWrite", r) \/ RanTimer(r))]_vars

\* ------------------------------------------- a node with links of both roles
\* The follower's upstream stream to the hub, which may break, while the
\* follower also accepts a stream opened under the hub's node id (the hub's own
\* upstream stream, whose far end is left out). The follower's reporter stays
\* at its first version.
MeshNext ==
  \/ Follow(Follower)
  \/ Connect
  \/ /\ Hub \notin DOMAIN followers_[Follower]
     /\ StartSync(Follower, NoReactor, Hub)
  \/ \E r \in ReactorIds, ok \in BOOLEAN : OnSendInitialMetadataDone(r, ok)
  \/ \E r \in ReactorIds, ok \in BOOLEAN : OnReadInitialMetadataDone(r, ok)
  \/ \E r \in ReactorIds, ok \in BOOLEAN : OnReadDone(r, ok)
  \/ \E r \in ReactorIds, ok \in BOOLEAN : OnWriteDone(r, ok)
  \/ CoolDownOver
  \/ Completed
  \/ Executor
  \/ Cut
  \/ \E r \in ReactorIds : UseAfterFree(r)

MeshSpec == LiveInit /\ [][MeshNext]_vars

\* C20 (follower teardown): the RaySyncDone task of a follower reactor leaves
\* followers_ as it was.
FollowerDoneKeepsFollowers ==
  [][\A r \in ReactorIds :
       (reactors[r].side = "client" /\ RanTask("RaySyncDone", r))
         => followers_' = followers_]_vars

====
